---- MODULE Spec2Model ----
(***************************************************************************)
(* Model of the cycling race simulator (src/cycling_sim): Physiology,      *)
(* Route, Rider.choose_power, the force model and the Race engine.         *)
(*                                                                         *)
(* Numbers.  Every quantity of the program is a Python float.  A float is  *)
(* modelled as a binary floating-point number of reduced width: an integer *)
(* count of quanta of 2^-FracBits that has at most MantBits significant    *)
(* bits.  Each arithmetic operation of the source (+ - * /) is the exact   *)
(* result rounded to the nearest such number, ties to even, as IEEE-754    *)
(* does with 53 bits.  Comparisons, min and max are exact.                  *)
(***************************************************************************)
EXTENDS Integers, Sequences, FiniteSets, TLC

\* Width of the modelled float: significant bits, and fraction bits of the
\* smallest quantum.
MantBits == 6
FracBits == 8

Abs(x) == IF x < 0 THEN -x ELSE x
Sgn(x) == IF x < 0 THEN -1 ELSE 1

\* Python's min(a, b) and max(a, b) on floats.
Min(a, b) == IF b < a THEN b ELSE a
Max(a, b) == IF b > a THEN b ELSE a

\* Binary exponent of a magnitude q: the k with q \div 2^k < 2^MantBits.
RECURSIVE ExpOf(_)
ExpOf(q) == IF q < 2^MantBits THEN 0 ELSE 1 + ExpOf(q \div 2)

\* Unit in the last place of x.
Ulp(x) == 2^ExpOf(Abs(x))

\* Round to nearest, ties to even: the quotient m of a division by D that
\* left the remainder r.
RoundHalfEven(m, r, D) ==
    IF 2 * r > D \/ (2 * r = D /\ m % 2 = 1) THEN m + 1 ELSE m

\* n/d quanta rounded to a multiple of 2^k.
RoundAt(n, d, k) ==
    Sgn(n) * 2^k * RoundHalfEven(Abs(n) \div (d * 2^k), Abs(n) % (d * 2^k), d * 2^k)

\* The float nearest to the rational n/d quanta (d > 0), ties to even.
RoundRat(n, d) == RoundAt(n, d, ExpOf(Abs(n) \div d))

\* The float nearest to (n/d) * 2^e quanta.
RoundScaled(n, d, e) == RoundRat(n * 2^Max(e, 0), d * 2^Max(-e, 0))

\* The float a decimal literal n/d of the source denotes.
Lit(n, d) == RoundRat(n * 2^FracBits, d)

\* Significand of a float.
Mant(x) == Abs(x) \div Ulp(x)

\* float + float, float - float.
FAdd(a, b) == RoundRat(a + b, 1)
FSub(a, b) == RoundRat(a - b, 1)

\* float * float.
FMul(a, b) ==
    RoundScaled(Sgn(a) * Sgn(b) * Mant(a) * Mant(b), 1,
                ExpOf(Abs(a)) + ExpOf(Abs(b)) - FracBits)

\* float / float (b # 0).
FDiv(a, b) ==
    RoundScaled(Sgn(a) * Sgn(b) * Mant(a), Mant(b),
                ExpOf(Abs(a)) + FracBits - ExpOf(Abs(b)))

\* int(x) for a float x: truncation towards zero.
IntOf(x) == Sgn(x) * (Abs(x) \div 2^FracBits)

\* float("inf"): larger than every float of the model.
Inf == 2^30

\* Optional[float]: None is the empty tuple, a float t is <<t>>.
None == <<>>
Some(t) == <<t>>
\* Python truthiness of an Optional[float]: None and 0.0 are falsy.
Truthy(o) == o # None /\ o[1] # 0
\* The expression "o or d".
OrElse(o, d) == IF Truthy(o) THEN o[1] ELSE d

(***************************************************************************)
(* The float literals of the source                                        *)
(***************************************************************************)

One == Lit(1, 1)                      \* 1.0
Thousand == Lit(1000, 1)              \* 1000.0: joules per kilojoule
RecoveryFactor == Lit(25, 100)        \* 0.25 in update
LowBalanceFraction == Lit(2, 10)      \* 0.2 * w_prime
LowCeiling == Lit(105, 100)           \* cp * 1.05
HighCeiling == Lit(14, 10)            \* cp * 1.4
CookedBalance == Lit(1, 1)            \* w_balance <= 1.0
CookedFraction == Lit(8, 10)          \* 0.8 * critical_power
DefaultFatigueKj == Lit(800, 1)       \* fatigue_kj = 800.0
DefaultFatiguePenalty == Lit(15, 100) \* fatigue_penalty = 0.15
DefaultSprintPower == Lit(1100, 1)    \* sprint_power = 1100.0
ConservativeFactor == Lit(95, 100)    \* cp * 0.95
ChaseGap == Lit(5, 1)                 \* gap > 5.0
ChaseFactor == Lit(13, 10)            \* cp * 1.3
DraftingGap == Lit(2, 1)              \* gap < 2.0
DraftingFactor == Lit(9, 10)          \* cp * 0.9
FrontFactor == Lit(11, 10)            \* cp * 1.1
HalfRho == Lit(5, 10)                 \* 0.5 * air_density
MinRollingSpeed == Lit(5, 10)         \* max(speed, 0.5)
CloseDraftGap == Lit(2, 1)            \* compute_draft_factor: gap < 2.0
CloseDraftFactor == Lit(7, 10)        \* 0.7
FarDraftGap == Lit(5, 1)              \* compute_draft_factor: gap < 5.0
FarDraftFactor == Lit(85, 100)        \* 0.85
NoDraftFactor == Lit(1, 1)            \* 1.0
MinSpacing == Lit(3, 10)              \* leader.position - 0.3
DefaultDt == Lit(2, 10)               \* dt = 0.2
DefaultMaxTime == Lit(7200, 1)        \* max_time = 7200.0

VARIABLES
    riders,      \* Race.riders: the list of Rider records, in list order
    route,       \* Race.route: [segments, total_length]
    dt,          \* Race.dt
    time,        \* Race.time
    pc,          \* where the caller is: "idle", "running" (inside run()), "returned"
    max_time,    \* run(): its argument
    max_steps,   \* run(): int(max_time / dt)
    iter,        \* run(): iterations of the for loop begun so far
    result,      \* run(): the RaceResult returned last, None before
    hist,        \* history: what the calls so far did (read by the properties only)
    phys,        \* a Physiology object used on its own
    upd,         \* history: the arguments of the last Physiology.update call
    lookup,      \* history: the last Route.gradient_at call, [position, gradient]
    chosen       \* history: the last Rider.choose_power call made on its own

raceVars == <<riders, route, dt, time, pc, max_time, max_steps, iter, result, hist>>
physVars == <<phys, upd>>
vars == <<riders, route, dt, time, pc, max_time, max_steps, iter, result, hist,
          phys, upd, lookup, chosen>>

(***************************************************************************)
(* physiology.py                                                           *)
(***************************************************************************)

\* Physiology(critical_power, w_prime, fatigue_kj, fatigue_penalty,
\* sprint_power) after __post_init__.
Physiology(critical_power, w_prime, fatigue_kj, fatigue_penalty, sprint_power) ==
    [critical_power  |-> critical_power,
     w_prime         |-> w_prime,
     fatigue_kj      |-> fatigue_kj,
     fatigue_penalty |-> fatigue_penalty,
     sprint_power    |-> sprint_power,
     w_balance       |-> w_prime,
     total_kj        |-> 0]

\* Mutant of fatigue_adjusted_cp: the fatigue ratio is not capped at 1.0.
fatigue_adjusted_cp_uncapped(self) ==
    LET fatigue_ratio == FDiv(self.total_kj, self.fatigue_kj)
        cp_drop       == FMul(self.fatigue_penalty, fatigue_ratio)
    IN  FMul(self.critical_power, Max(0, FSub(One, cp_drop)))

fatigue_adjusted_cp(self) ==
    LET fatigue_ratio == Min(FDiv(self.total_kj, self.fatigue_kj), One)
        cp_drop       == FMul(self.fatigue_penalty, fatigue_ratio)
    IN  FMul(self.critical_power, Max(0, FSub(One, cp_drop)))

\* The body of update() once cp and the new total_kj are computed.
update_balance(self, power, dt_, cp, total) ==
    IF power > cp
    THEN [self EXCEPT !.total_kj  = total,
                      !.w_balance = Max(0, FSub(self.w_balance,
                                                FMul(FSub(power, cp), dt_)))]
    ELSE [self EXCEPT !.total_kj  = total,
                      !.w_balance = Min(self.w_prime,
                                        FAdd(self.w_balance,
                                             FMul(FMul(FSub(cp, power), dt_),
                                                  RecoveryFactor)))]

\* Mutant of update: the results are not clamped into [0, w_prime].
update_unclamped(self, power, dt_) ==
    LET cp    == fatigue_adjusted_cp(self)
        total == FAdd(self.total_kj, FDiv(FMul(power, dt_), Thousand))
    IN  IF power > cp
        THEN [self EXCEPT !.total_kj  = total,
                          !.w_balance = FSub(self.w_balance, FMul(FSub(power, cp), dt_))]
        ELSE [self EXCEPT !.total_kj  = total,
                          !.w_balance = FAdd(self.w_balance,
                                             FMul(FMul(FSub(cp, power), dt_), RecoveryFactor))]

\* Mutant of update: the work is accumulated only when it depletes w_balance.
update_work_above_cp(self, power, dt_) ==
    LET cp == fatigue_adjusted_cp(self)
    IN  IF power > cp
        THEN [self EXCEPT !.total_kj  = FAdd(self.total_kj,
                                             FDiv(FMul(power, dt_), Thousand)),
                          !.w_balance = Max(0, FSub(self.w_balance,
                                                    FMul(FSub(power, cp), dt_)))]
        ELSE [self EXCEPT !.w_balance = Min(self.w_prime,
                                            FAdd(self.w_balance,
                                                 FMul(FMul(FSub(cp, power), dt_),
                                                      RecoveryFactor)))]

\* Mutant of update: total_kj is advanced first and cp is computed from it.
update_fatigue_first(self, power, dt_) ==
    update_balance(self, power, dt_,
                   fatigue_adjusted_cp([self EXCEPT !.total_kj =
                       FAdd(self.total_kj, FDiv(FMul(power, dt_), Thousand))]),
                   FAdd(self.total_kj, FDiv(FMul(power, dt_), Thousand)))

\* Physiology.update(power, dt): cp is read before total_kj is advanced.
update(self, power, dt_) ==
    update_balance(self, power, dt_, fatigue_adjusted_cp(self),
                   FAdd(self.total_kj, FDiv(FMul(power, dt_), Thousand)))

available_power(self) ==
    FMul(fatigue_adjusted_cp(self),
         IF self.w_balance < FMul(LowBalanceFraction, self.w_prime)
         THEN LowCeiling ELSE HighCeiling)

is_cooked(self) ==
    /\ self.w_balance <= CookedBalance
    /\ fatigue_adjusted_cp(self) < FMul(CookedFraction, self.critical_power)

(***************************************************************************)
(* route.py                                                                *)
(***************************************************************************)

RouteSegment(length, gradient) == [length |-> length, gradient |-> gradient]

\* sum(seg.length for seg in segments): left to right, from 0.
RECURSIVE SumLengths(_, _)
SumLengths(segments, n) ==
    IF n = 0 THEN 0 ELSE FAdd(SumLengths(segments, n - 1), segments[n].length)

\* Route.__init__
Route(segments) ==
    [segments |-> segments, total_length |-> SumLengths(segments, Len(segments))]

\* The loop of Route.gradient_at from segment i on, pos being the running
\* cumulative start.
RECURSIVE gradient_scan(_, _, _, _)
gradient_scan(self, i, pos, position) ==
    IF i > Len(self.segments) THEN self.segments[Len(self.segments)].gradient
    ELSE IF position <= FAdd(pos, self.segments[i].length)
         THEN self.segments[i].gradient
         ELSE gradient_scan(self, i + 1, FAdd(pos, self.segments[i].length), position)

\* Mutant of gradient_at: the running start begins one segment late.
gradient_at_offset(self, position) ==
    gradient_scan(self, 1, self.segments[1].length, position)

gradient_at(self, position) == gradient_scan(self, 1, 0, position)

(***************************************************************************)
(* rider.py                                                                *)
(***************************************************************************)

\* Rider(name, mass, cda, crr, physiology, position) with the defaults of the
\* dataclass for velocity, finished and finish_time.
Rider(name, mass, cda, crr, physiology, position) ==
    [name        |-> name,
     mass        |-> mass,
     cda         |-> cda,
     crr         |-> crr,
     physiology  |-> physiology,
     position    |-> position,
     velocity    |-> 0,
     finished    |-> FALSE,
     finish_time |-> None]

\* Rider.choose_power(state), state = [gap, at_front, ...].
\* Mutant of power_rule: the chase rule is tried before the near-depleted
\* rule.
power_rule_chase_first(ph, cp, max_power, gap, at_front) ==
    IF gap > ChaseGap /\ ~at_front THEN Min(max_power, FMul(cp, ChaseFactor))
    ELSE IF ph.w_balance < FMul(LowBalanceFraction, ph.w_prime) THEN FMul(cp, ConservativeFactor)
    ELSE IF ~at_front /\ gap < DraftingGap THEN FMul(cp, DraftingFactor)
    ELSE IF at_front THEN Min(max_power, FMul(cp, FrontFactor))
    ELSE cp

\* The rules of choose_power once cp and max_power are computed.
power_rule(ph, cp, max_power, gap, at_front) ==
    IF ph.w_balance < FMul(LowBalanceFraction, ph.w_prime) THEN FMul(cp, ConservativeFactor)
    ELSE IF gap > ChaseGap /\ ~at_front THEN Min(max_power, FMul(cp, ChaseFactor))
    ELSE IF ~at_front /\ gap < DraftingGap THEN FMul(cp, DraftingFactor)
    ELSE IF at_front THEN Min(max_power, FMul(cp, FrontFactor))
    ELSE cp

choose_power(self, state) ==
    power_rule(self.physiology,
               fatigue_adjusted_cp(self.physiology),
               Min(available_power(self.physiology), self.physiology.sprint_power),
               state.gap, state.at_front)

(***************************************************************************)
(* physics.py                                                              *)
(***************************************************************************)

\* PhysicsConstants
air_density == Lit(1226, 1000)
gravity == Lit(196133, 20000)
drivetrain_efficiency == Lit(975, 1000)

\* The dictionary compute_forces returns for the three forces.
forces(aero_force, roll_force, grade_force) ==
    [aero    |-> aero_force,
     rolling |-> roll_force,
     grade   |-> grade_force,
     total   |-> FAdd(FAdd(aero_force, roll_force), grade_force)]

compute_forces(speed, gradient, mass, cda, crr, draft_factor) ==
    forces(FMul(FMul(FMul(FMul(HalfRho, air_density), cda), draft_factor),
                FMul(speed, speed)),
           FMul(FMul(mass, gravity), crr),
           FMul(FMul(mass, gravity), gradient))

\* Mutant of integrate: the speed is not floored at zero.
integrate_unclamped(speed, acceleration, dt_) ==
    <<acceleration, FAdd(speed, FMul(acceleration, dt_))>>

\* The pair compute_next_speed returns for an acceleration.
integrate(speed, acceleration, dt_) ==
    <<acceleration, Max(0, FAdd(speed, FMul(acceleration, dt_)))>>

\* Returns <<acceleration, next_speed>>.
compute_next_speed(power, speed, gradient, mass, cda, crr, draft_factor, dt_) ==
    integrate(speed,
              FDiv(FSub(FDiv(FMul(power, drivetrain_efficiency),
                             Max(speed, MinRollingSpeed)),
                        compute_forces(speed, gradient, mass, cda, crr,
                                       draft_factor).total),
                   mass),
              dt_)

(***************************************************************************)
(* race.py                                                                 *)
(***************************************************************************)

\* Mutant of compute_draft_factor: the close band is forgotten.
compute_draft_factor_far_only(gap) ==
    IF gap < FarDraftGap THEN FarDraftFactor
    ELSE NoDraftFactor

compute_draft_factor(gap) ==
    IF gap < CloseDraftGap THEN CloseDraftFactor
    ELSE IF gap < FarDraftGap THEN FarDraftFactor
    ELSE NoDraftFactor

\* Tuple comparison of two sort keys <<a, b>>.
KeyLess(k1, k2) == k1[1] < k2[1] \/ (k1[1] = k2[1] /\ k1[2] < k2[2])

\* list.sort(key=...): stable, ascending in key; keys[i] is the key of s[i].
StableSort(s, keys) ==
    LET n == Len(s)
        Before(i, j) == \/ KeyLess(keys[i], keys[j])
                        \/ (keys[i] = keys[j] /\ i < j)
        At(r) == CHOOSE i \in 1..n : Cardinality({j \in 1..n : Before(j, i)}) = r - 1
    IN  [r \in 1..n |-> s[At(r)]]

\* riders.sort(key=lambda r: r.position, reverse=True)
\* Mutant of SortByPosition: the sort is not reversed, the rider furthest back
\* comes first.
SortByPositionAscending(rs) ==
    StableSort(rs, [i \in 1..Len(rs) |-> <<rs[i].position, 0>>])

PositionKey(r) == <<-r.position, 0>>
SortByPosition(rs) == StableSort(rs, [i \in 1..Len(rs) |-> PositionKey(rs[i])])

\* riders.sort(key=lambda r: (-r.position, r.finish_time or float("inf")))
FinalKey(r) == <<-r.position, OrElse(r.finish_time, Inf)>>
SortFinal(rs) == StableSort(rs, [i \in 1..Len(rs) |-> FinalKey(rs[i])])

AnyFinished(rs) == \E i \in 1..Len(rs) : rs[i].finished

\* Mutant of StepGap: the gap is measured against the position the leader had
\* when the step began.
StepGapPreStep(rs, idx) ==
    IF idx > 1
    THEN FSub((CHOOSE r \in { riders[i] : i \in 1..Len(riders) } :
                   r.name = rs[idx - 1].name).position,
              rs[idx].position)
    ELSE Inf

\* The gap of the rider at idx of the sorted list to its leader, if it has one.
StepGap(rs, idx) ==
    IF idx > 1 THEN FSub(rs[idx - 1].position, rs[idx].position) ELSE Inf

\* The state dictionary of step() for a gap, with the draft factor and the
\* gradient step() computes beside it.
StepState(gap, at_front, gradient) ==
    [time         |-> time,
     gap          |-> IF gap # Inf THEN gap ELSE 0,
     at_front     |-> at_front,
     draft_factor |-> compute_draft_factor(gap),
     gradient     |-> gradient]

StepContext(rs, idx) ==
    StepState(StepGap(rs, idx), idx = 1, gradient_at(route, rs[idx].position))

\* Mutant of OverlapGuard: the rider is held at the leader's position, the
\* spacing forgotten.
OverlapGuardNoSpacing(r, rs, idx) ==
    IF idx > 1 /\ r.position > rs[idx - 1].position
    THEN [r EXCEPT !.position = rs[idx - 1].position,
                   !.velocity = Min(r.velocity, rs[idx - 1].velocity)]
    ELSE r

\* Mutant of OverlapGuard: no guard, a rider may pass its leader.
OverlapGuardOff(r, rs, idx) == r

\* The overlap guard of step() for a rider r with the leader ahead of it.
OverlapGuard(r, rs, idx) ==
    IF idx > 1 /\ r.position > FSub(rs[idx - 1].position, MinSpacing)
    THEN [r EXCEPT !.position = FSub(rs[idx - 1].position, MinSpacing),
                   !.velocity = Min(r.velocity, rs[idx - 1].velocity)]
    ELSE r

\* Mutant of FinishCheck: the rider is marked finished where it stands, not
\* set back onto the line.
FinishCheckNoClamp(r) ==
    IF r.position >= route.total_length
    THEN [r EXCEPT !.finished = TRUE,
                   !.finish_time = Some(time)]
    ELSE r

\* The finish line check of step().
FinishCheck(r) ==
    IF r.position >= route.total_length
    THEN [r EXCEPT !.finished = TRUE,
                   !.finish_time = Some(time),
                   !.position = route.total_length]
    ELSE r

\* rider.physiology.update(power, dt); rider.velocity = next_speed;
\* rider.position += rider.velocity * dt
Advance(rider, power, next_speed) ==
    [rider EXCEPT !.physiology = update(rider.physiology, power, dt),
                  !.velocity = next_speed,
                  !.position = FAdd(rider.position, FMul(next_speed, dt))]

\* The rider under the power it has chosen: speed integration, then Advance.
Ride(rider, ctx, power) ==
    Advance(rider, power,
            compute_next_speed(power, rider.velocity, ctx.gradient, rider.mass,
                               rider.cda, rider.crr, ctx.draft_factor, dt)[2])

\* The rider in the context ctx: power choice, then Ride.
Pedal(rider, ctx) == Ride(rider, ctx, choose_power(rider, ctx))

\* Mutant of StepRider: a finished rider is processed like any other.
StepRiderNoSkip(rs, idx) ==
    FinishCheck(OverlapGuard(Pedal(rs[idx], StepContext(rs, idx)), rs, idx))

\* Mutant of StepRider: the finish line check comes before the overlap guard.
StepRiderFinishFirst(rs, idx) ==
    IF rs[idx].finished THEN rs[idx]
    ELSE OverlapGuard(FinishCheck(Pedal(rs[idx], StepContext(rs, idx))), rs, idx)

\* One pass of the body of the for loop of step() for the rider at idx; rs
\* holds the riders ahead of idx as this pass has already left them.
StepRider(rs, idx) ==
    IF rs[idx].finished THEN rs[idx]
    ELSE FinishCheck(OverlapGuard(Pedal(rs[idx], StepContext(rs, idx)), rs, idx))

\* One pass of the for loop of step(): the rider at idx processed in rs.
StepLoopOne(rs, idx) == [rs EXCEPT ![idx] = StepRider(rs, idx)]

\* The for loop of step() from index idx on.
RECURSIVE StepLoop(_, _)
StepLoop(rs, idx) ==
    IF idx > Len(rs) THEN rs
    ELSE StepLoop(StepLoopOne(rs, idx), idx + 1)

\* Race.step(): the riders it leaves (the race time advances by dt).
step(rs) == StepLoop(SortByPosition(rs), 1)

\* The sorted list rs as the for loop of step() has left it when the turn of
\* the rider at idx comes: the riders ahead of idx processed, the others not.
RECURSIVE StepBefore(_, _)
StepBefore(rs, idx) ==
    IF idx = 1 THEN rs
    ELSE StepLoopOne(StepBefore(rs, idx - 1), idx - 1)

\* Mutant of MarkDNF: the riders get the race time, not max_time.
MarkDNFAtRaceTime(rs) ==
    IF AnyFinished(rs) THEN rs
    ELSE [i \in 1..Len(rs) |-> [rs[i] EXCEPT !.finished = TRUE,
                                             !.finish_time = Some(time)]]

\* The DNF marking of run().
MarkDNF(rs) ==
    IF AnyFinished(rs) THEN rs
    ELSE [i \in 1..Len(rs) |-> [rs[i] EXCEPT !.finished = TRUE,
                                             !.finish_time = Some(max_time)]]

\* The RaceResult run() builds from the finally sorted riders.
RaceResult(rs) ==
    [order        |-> [i \in 1..Len(rs) |-> rs[i].name],
     finish_times |-> [n \in {rs[i].name : i \in 1..Len(rs)} |->
                          LET r == CHOOSE x \in {rs[i] : i \in 1..Len(rs)} : x.name = n
                          IN  OrElse(r.finish_time, max_time)]]

(***************************************************************************)
(* Bounds and the inputs drawn within them                                 *)
(***************************************************************************)

MaxRiders == 3     \* riders in a race
MaxSteps == 2      \* step() calls made directly by the caller
MaxUpdates == 3    \* update() calls on the stand-alone Physiology

\* Rider traits <<mass, cda, crr, critical_power, w_prime>>, within the ranges
\* of Simulator.random_rider except for the first w_prime, which is small
\* enough for a few steps to deplete it.
StrongTraits == <<Lit(65, 1), Lit(25, 100), Lit(3, 1000), Lit(360, 1), Lit(20, 1)>>
WeakTraits == <<Lit(80, 1), Lit(35, 100), Lit(5, 1000), Lit(280, 1), Lit(15000, 1)>>

\* The riders of a race alternate between the two traits, from either one.
TraitPatterns ==
    { [i \in 1..MaxRiders |-> IF i % 2 = 1 THEN StrongTraits ELSE WeakTraits],
      [i \in 1..MaxRiders |-> IF i % 2 = 1 THEN WeakTraits ELSE StrongTraits] }

\* Starting positions: the start line (where the Simulator puts every rider)
\* and 1.5 m up the road.
StartPositions == { 0, Lit(15, 10) }

\* Routes: segment lengths whose cumulative sums are floats.
ShortRoute ==
    <<[length |-> Lit(1, 1), gradient |-> 0],
      [length |-> Lit(75, 100), gradient |-> Lit(5, 100)]>>
LongRoute ==
    <<[length |-> Lit(2, 1), gradient |-> Lit(1, 100)],
      [length |-> Lit(1, 1), gradient |-> -Lit(2, 100)],
      [length |-> Lit(1, 1), gradient |-> Lit(6, 100)]>>
Routes == { Route(ShortRoute), Route(LongRoute) }

Timesteps == { DefaultDt, Lit(3, 10) }

\* max_time arguments of run(): no step, two steps, five steps, the default.
MaxTimes == { 0, Lit(5, 10), Lit(98, 100), DefaultMaxTime }

\* The rider Simulator.random_rider(idx) builds, with traits t, placed at p.
MakeRider(idx, t, p) ==
    Rider("Rider_" \o ToString(idx), t[1], t[2], t[3],
          Physiology(t[4], t[5], DefaultFatigueKj, DefaultFatiguePenalty,
                     DefaultSprintPower), p)

RiderLists ==
    UNION { { [i \in 1..n |-> MakeRider(i - 1, tp[i], pos[i])] :
              tp \in TraitPatterns, pos \in [1..n -> StartPositions] } :
            n \in 1..MaxRiders }

MaxSegments == 3   \* segments of a route looked up on its own

\* Stand-alone Physiology objects: w_prime negative, zero and positive, a
\* fatigue_kj that a few updates reach, a fatigue_penalty above 1.
PhysInputs ==
    { Physiology(Lit(300, 1), wp, fk, pen, DefaultSprintPower) :
        wp \in { -Lit(10, 1), 0, Lit(20, 1), Lit(100, 1) },
        fk \in { Lit(5, 10), DefaultFatigueKj },
        pen \in { DefaultFatiguePenalty, Lit(15, 10) } }

\* Arguments of update(): power of either sign, below and above CP; dt >= 0.
Powers == { -Lit(100, 1), 0, Lit(200, 1), Lit(320, 1), Lit(1100, 1) }
UpdateDts == { 0, DefaultDt, One }

\* Routes looked up on their own: every segment has its own gradient, and the
\* lengths are such that every cumulative end is a float.
SegmentLengths == { Lit(5, 10), Lit(1, 1), Lit(2, 1) }
SegmentGradient(i) == (i % 2) * 2 * i - i
RouteInputs ==
    UNION { { Route([i \in 1..n |-> [length |-> len[i], gradient |-> SegmentGradient(i)]]) :
              len \in [1..n -> SegmentLengths] } : n \in 1..MaxSegments }

\* Positions looked up: every quarter metre from -0.5 m to 8.75 m.
LookupPositions == { Lit(k, 4) : k \in -2..35 }

NoCall == [position |-> 0, gradient |-> 0, n |-> 0]
NoUpdate == [power |-> 0, dt |-> 0, n |-> 0]
NoPhys == Physiology(0, 0, One, 0, 0)
NoChoice == [gap |-> 0, at_front |-> FALSE, power |-> 0, n |-> 0]

(***************************************************************************)
(* The race: Race.__init__, step() and run()                               *)
(***************************************************************************)

NameSet(rs) == { rs[i].name : i \in 1..Len(rs) }

\* History of the calls: last is the call that ended last; steps and runs count
\* the caller's step() and run() calls; run_steps counts the step() calls of
\* the current run() and run_t0 is the race time when it was called; moved is
\* the set of riders the last step() processed (not finished at their turn);
\* crossed is the set of riders a step() has marked finished, run_crossed
\* those marked by a step() of the current run(); dnf tells whether the last
\* run() took its DNF branch.
\* seen[i] tells what the last step() computed for the i-th rider of its
\* order and step_time is the race time that step() started at.
HistInit ==
    [last |-> "init", steps |-> 0, runs |-> 0, run_steps |-> 0, run_t0 |-> 0,
     moved |-> {}, crossed |-> {}, run_crossed |-> {}, dnf |-> FALSE,
     seen |-> <<>>, step_time |-> 0]

\* What step() computes at the turn of the rider at idx of rs (the list as the
\* pass has left it so far): the rider before its move, whether it is
\* processed, its gap, the state dictionary (with draft factor and gradient)
\* and the power chosen from it.
SeenWith(rider, gap, ctx) ==
    [name      |-> rider.name,
     before    |-> rider,
     processed |-> ~rider.finished,
     gap       |-> gap,
     ctx       |-> ctx,
     power     |-> choose_power(rider, ctx)]
SeenAt(rs, idx) == SeenWith(rs[idx], StepGap(rs, idx), StepContext(rs, idx))
SeenIn(rs) == [i \in 1..Len(rs) |-> SeenAt(StepBefore(rs, i), i)]

\* The riders that a step() taking rs to rs2 marked finished.
Crossing(rs, rs2) ==
    { rs[i].name : i \in { k \in 1..Len(rs) :
                             /\ ~rs[k].finished
                             /\ \E j \in 1..Len(rs2) :
                                   rs2[j].name = rs[k].name /\ rs2[j].finished } }

\* What one step() taking rs to rs2 adds to the history.
HistStep(h, rs, rs2) ==
    [h EXCEPT !.last = "step",
              !.seen = SeenIn(SortByPosition(rs)),
              !.step_time = time,
              !.moved = { rs[i].name : i \in { j \in 1..Len(rs) : ~rs[j].finished } },
              !.crossed = @ \cup Crossing(rs, rs2)]

\* Race(riders, route, dt)
Init ==
    /\ riders \in RiderLists
    /\ route \in Routes
    /\ dt \in Timesteps
    /\ time = 0
    /\ pc = "idle"
    /\ max_time = 0
    /\ max_steps = 0
    /\ iter = 0
    /\ result = None
    /\ hist = HistInit
    /\ phys = NoPhys
    /\ upd = NoUpdate
    /\ lookup = NoCall
    /\ chosen = NoChoice

\* The caller calls race.step().
StepCall ==
    /\ pc \in {"idle", "returned"}
    /\ hist.steps < MaxSteps
    /\ \E rs2 \in {step(riders)} :
          /\ riders' = rs2
          /\ hist' = [HistStep(hist, riders, rs2) EXCEPT !.steps = @ + 1]
    /\ time' = FAdd(time, dt)
    /\ UNCHANGED <<route, dt, pc, max_time, max_steps, iter, result, phys, upd, lookup, chosen>>

\* The caller calls race.run(mt): max_steps is computed.
RunCall(mt) ==
    /\ pc = "idle"
    /\ pc' = "running"
    /\ max_time' = mt
    /\ max_steps' = IntOf(FDiv(mt, dt))
    /\ iter' = 0
    /\ hist' = [hist EXCEPT !.last = "run_call", !.runs = @ + 1, !.run_steps = 0,
                            !.run_t0 = time, !.run_crossed = {}, !.dnf = FALSE]
    /\ UNCHANGED <<riders, route, dt, time, result, phys, upd, lookup, chosen>>

\* Mutant of RunIter: the loop does not break when a rider is finished.
RunIterNoBreak ==
    /\ pc = "running"
    /\ iter < max_steps
    /\ \E rs2 \in {step(riders)} :
          /\ riders' = rs2
          /\ hist' = [HistStep(hist, riders, rs2) EXCEPT
                          !.run_steps = @ + 1,
                          !.run_crossed = @ \cup Crossing(riders, rs2)]
    /\ time' = FAdd(time, dt)
    /\ iter' = iter + 1
    /\ UNCHANGED <<route, dt, pc, max_time, max_steps, result, phys, upd, lookup, chosen>>

\* One iteration of the for loop of run() that does not break: step().
RunIter ==
    /\ pc = "running"
    /\ iter < max_steps
    /\ ~AnyFinished(riders)
    /\ \E rs2 \in {step(riders)} :
          /\ riders' = rs2
          /\ hist' = [HistStep(hist, riders, rs2) EXCEPT
                          !.run_steps = @ + 1,
                          !.run_crossed = @ \cup Crossing(riders, rs2)]
    /\ time' = FAdd(time, dt)
    /\ iter' = iter + 1
    /\ UNCHANGED <<route, dt, pc, max_time, max_steps, result, phys, upd, lookup, chosen>>

\* The loop of run() ends (range exhausted, or break): DNF marking, final sort
\* and the RaceResult.
RunReturn ==
    /\ pc = "running"
    /\ iter >= max_steps \/ AnyFinished(riders)
    /\ \E rs2 \in {SortFinal(MarkDNF(riders))} :
          /\ riders' = rs2
          /\ result' = Some(RaceResult(rs2))
    /\ pc' = "returned"
    /\ hist' = [hist EXCEPT !.last = "run_return", !.dnf = ~AnyFinished(riders)]
    /\ UNCHANGED <<route, dt, time, max_time, max_steps, iter, phys, upd, lookup, chosen>>

Next ==
    \/ StepCall
    \/ \E mt \in MaxTimes : RunCall(mt)
    \/ RunIter
    \/ RunReturn

Spec == Init /\ [][Next]_vars

\* run() is sequential code: once called it keeps executing, so its loop is
\* weakly fair.  WF_vars(A) is []<>~ENABLED <<A>>_vars \/ []<><<A>>_vars; the
\* two actions of run() change iter or pc whenever they are taken, so ENABLED
\* <<A>>_vars is the guard of A, which is written out here.
RunIterEnabled == pc = "running" /\ iter < max_steps /\ ~AnyFinished(riders)
RunReturnEnabled == pc = "running" /\ (iter >= max_steps \/ AnyFinished(riders))
LiveSpec ==
    /\ Spec
    /\ ([]<>(~RunIterEnabled) \/ []<><<RunIter>>_vars)
    /\ ([]<>(~RunReturnEnabled) \/ []<><<RunReturn>>_vars)

(***************************************************************************)
(* Races of riders strung out along a long route: step() calls             *)
(***************************************************************************)

\* Starting positions up to 10 m apart on a 20 m climb of 1%.
WideStarts == { 0, Lit(15, 10), Lit(4, 1), Lit(10, 1) }
WideRoute == Route(<<RouteSegment(Lit(20, 1), Lit(1, 100))>>)
WideRiderLists ==
    UNION { { [i \in 1..n |-> MakeRider(i - 1,
                                        IF i % 2 = 1 THEN StrongTraits ELSE WeakTraits,
                                        pos[i])] :
              pos \in [1..n -> WideStarts] } : n \in 2..MaxRiders }

WideInit ==
    /\ riders \in WideRiderLists
    /\ route = WideRoute
    /\ dt = DefaultDt
    /\ time = 0
    /\ pc = "idle"
    /\ max_time = 0
    /\ max_steps = 0
    /\ iter = 0
    /\ result = None
    /\ hist = HistInit
    /\ phys = NoPhys
    /\ upd = NoUpdate
    /\ lookup = NoCall
    /\ chosen = NoChoice

SpecWide == WideInit /\ [][StepCall]_vars

(***************************************************************************)
(* A Physiology used on its own: update(power, dt) calls                   *)
(***************************************************************************)

RaceIdle ==
    /\ riders = <<>>
    /\ dt = DefaultDt
    /\ time = 0
    /\ pc = "idle"
    /\ max_time = 0
    /\ max_steps = 0
    /\ iter = 0
    /\ result = None
    /\ hist = HistInit

PhysInit ==
    /\ RaceIdle
    /\ route = Route(ShortRoute)
    /\ phys \in PhysInputs
    /\ upd = NoUpdate
    /\ lookup = NoCall
    /\ chosen = NoChoice

Update(power, dt_) ==
    /\ upd.n < MaxUpdates
    /\ phys' = update(phys, power, dt_)
    /\ upd' = [power |-> power, dt |-> dt_, n |-> upd.n + 1]
    /\ UNCHANGED <<raceVars, lookup, chosen>>

PhysNext == \E power \in Powers, dt_ \in UpdateDts : Update(power, dt_)

SpecPhys == PhysInit /\ [][PhysNext]_vars

(***************************************************************************)
(* A Physiology within the default tunables, used on its own: update()     *)
(* calls with power >= 0                                                   *)
(***************************************************************************)

\* fatigue_penalty at the default and at 0.2; a fatigue_kj that one update
\* passes, one that a few updates reach, and the default.
MildPenalties == { DefaultFatiguePenalty, Lit(2, 10) }
MildPhys ==
    { Physiology(Lit(300, 1), wp, fk, pen, DefaultSprintPower) :
        wp \in { 0, Lit(20, 1) },
        fk \in { Lit(1, 10), Lit(5, 10), DefaultFatigueKj },
        pen \in MildPenalties }
WorkingPowers == { 0, Lit(200, 1), Lit(320, 1), Lit(1100, 1) }

MildInit ==
    /\ RaceIdle
    /\ route = Route(ShortRoute)
    /\ phys \in MildPhys
    /\ upd = NoUpdate
    /\ lookup = NoCall
    /\ chosen = NoChoice

MildNext == \E power \in WorkingPowers, dt_ \in UpdateDts : Update(power, dt_)

SpecMild == MildInit /\ [][MildNext]_vars

(***************************************************************************)
(* A Route used on its own: gradient_at(position) calls                    *)
(***************************************************************************)

RouteInit ==
    /\ RaceIdle
    /\ route \in RouteInputs
    /\ phys = NoPhys
    /\ upd = NoUpdate
    /\ lookup = NoCall
    /\ chosen = NoChoice

Lookup(position) ==
    /\ lookup' = [position |-> position, gradient |-> gradient_at(route, position), n |-> 1]
    /\ UNCHANGED <<raceVars, physVars, chosen>>

RouteNext == \E position \in LookupPositions : Lookup(position)

SpecRoute == RouteInit /\ [][RouteNext]_vars

(***************************************************************************)
(* Fatigue at work: a race of two quickly tiring riders beside a           *)
(* Physiology updated on its own                                           *)
(***************************************************************************)

\* A rider whose CP drops by up to half within 0.1 kJ of work, so that one
\* step() changes its fatigue-adjusted CP.
MakeTiringRider(idx, t, p) ==
    Rider("Rider_" \o ToString(idx), t[1], t[2], t[3],
          Physiology(t[4], t[5], Lit(1, 10), Lit(5, 10), DefaultSprintPower), p)

TiringRiderLists ==
    { <<MakeTiringRider(0, StrongTraits, pos[1]), MakeTiringRider(1, WeakTraits, pos[2])>> :
        pos \in [1..2 -> StartPositions] }

\* Physiologies that tire within half a kilojoule.
TiringPhys == { p \in PhysInputs : p.fatigue_kj < One }
TiringPowers == { 0, Lit(200, 1), Lit(320, 1) }

FatigueInit ==
    /\ riders \in TiringRiderLists
    /\ route = Route(LongRoute)
    /\ dt = DefaultDt
    /\ time = 0
    /\ pc = "idle"
    /\ max_time = 0
    /\ max_steps = 0
    /\ iter = 0
    /\ result = None
    /\ hist = HistInit
    /\ phys \in TiringPhys
    /\ upd = NoUpdate
    /\ lookup = NoCall
    /\ chosen = NoChoice

FatigueNext ==
    \/ StepCall
    \/ \E power \in TiringPowers : Update(power, One)

SpecFatigue == FatigueInit /\ [][FatigueNext]_vars

(***************************************************************************)
(* Races as the Simulator builds them: every rider on the start line, one  *)
(* run() call                                                              *)
(***************************************************************************)

LevelRiderLists ==
    UNION { { [i \in 1..n |-> MakeRider(i - 1, t[i], 0)] :
              t \in [1..n -> {StrongTraits, WeakTraits}] } :
            n \in 1..MaxRiders }

LevelInit ==
    /\ riders \in LevelRiderLists
    /\ route \in Routes
    /\ dt \in Timesteps
    /\ time = 0
    /\ pc = "idle"
    /\ max_time = 0
    /\ max_steps = 0
    /\ iter = 0
    /\ result = None
    /\ hist = HistInit
    /\ phys = NoPhys
    /\ upd = NoUpdate
    /\ lookup = NoCall
    /\ chosen = NoChoice

LevelNext ==
    \/ \E mt \in MaxTimes : RunCall(mt)
    \/ RunIter
    \/ RunReturn

SpecLevel == LevelInit /\ [][LevelNext]_vars

(***************************************************************************)
(* Slowing down: races of two riders, some of them rolling at the start    *)
(* or not pedalling at all, on a climb                                     *)
(***************************************************************************)

\* A rider whose critical power is 0 chooses power 0.
IdleTraits == <<Lit(80, 1), Lit(35, 100), Lit(5, 1000), 0, Lit(15000, 1)>>
StartVelocities == { 0, Lit(5, 1) }
SteepRoute == <<RouteSegment(Lit(20, 1), Lit(2, 10))>>

RollingRiderLists ==
    { [i \in 1..2 |-> [MakeRider(i - 1, t[i], pos[i]) EXCEPT !.velocity = v[i]]] :
        t \in [1..2 -> {StrongTraits, WeakTraits, IdleTraits}],
        pos \in [1..2 -> StartPositions],
        v \in [1..2 -> StartVelocities] }

RollingInit ==
    /\ riders \in RollingRiderLists
    /\ route \in { Route(LongRoute), Route(SteepRoute) }
    /\ dt = DefaultDt
    /\ time = 0
    /\ pc = "idle"
    /\ max_time = 0
    /\ max_steps = 0
    /\ iter = 0
    /\ result = None
    /\ hist = HistInit
    /\ phys = NoPhys
    /\ upd = NoUpdate
    /\ lookup = NoCall
    /\ chosen = NoChoice

SpecRolling == RollingInit /\ [][StepCall]_vars

(***************************************************************************)
(* A Rider used on its own: choose_power(state) calls                      *)
(***************************************************************************)

MaxPolicyUpdates == 3   \* update() calls behind a physiology of PolicyPhys

\* The physiologies the policy is asked about: a small and a large w_prime, a
\* fatigue_kj already reached and the default one, a sprint_power below
\* 1.3*CP and the default one, after up to
\* MaxPolicyUpdates one-second updates at rest, above CP or at sprint power.
PolicyPowers == { 0, Lit(320, 1), DefaultSprintPower }
RECURSIVE PhysAfter(_)
PhysAfter(k) ==
    IF k = 0
    THEN { Physiology(Lit(300, 1), wp, fk, DefaultFatiguePenalty, sp) :
             wp \in { Lit(20, 1), Lit(1000, 1) },
             fk \in { Lit(5, 10), DefaultFatigueKj },
             sp \in { Lit(350, 1), DefaultSprintPower } }
    ELSE { update(p, power, One) : p \in PhysAfter(k - 1), power \in PolicyPowers }
PolicyPhys == UNION { PhysAfter(k) : k \in 0..MaxPolicyUpdates }

\* The gaps of the state dictionary: below, on, between and above the two
\* thresholds 2.0 and 5.0.
PolicyGaps == { 0, One, Lit(2, 1), Lit(35, 10), Lit(5, 1), Lit(6, 1) }

PolicyInit ==
    /\ RaceIdle
    /\ route = Route(ShortRoute)
    /\ phys \in PolicyPhys
    /\ upd = NoUpdate
    /\ lookup = NoCall
    /\ chosen = NoChoice

\* rider.choose_power({"gap": gap, "at_front": at_front}) for a rider whose
\* physiology is phys.
Choose(gap, at_front) ==
    /\ chosen.n = 0
    /\ chosen' = [gap |-> gap, at_front |-> at_front, n |-> 1,
                  power |-> choose_power([physiology |-> phys],
                                         [gap |-> gap, at_front |-> at_front])]
    /\ UNCHANGED <<raceVars, physVars, lookup>>

PolicyNext == \E gap \in PolicyGaps, at_front \in BOOLEAN : Choose(gap, at_front)

SpecPolicy == PolicyInit /\ [][PolicyNext]_vars

(***************************************************************************)
(* Construction: Route(segments) and Race(riders, route, dt) with any      *)
(* arguments, then a gradient lookup or run()                              *)
(***************************************************************************)

MaxConfigSegments == 2   \* segments of a route built from unchecked lengths

\* Unchecked constructor arguments: segment lengths and dt of either sign.
ConfigLengths == { -One, 0, One }
ConfigRoutes ==
    UNION { { [i \in 1..n |-> RouteSegment(len[i], SegmentGradient(i))] :
                len \in [1..n -> ConfigLengths] } : n \in 0..MaxConfigSegments }
ConfigDts == { -DefaultDt, 0, DefaultDt }
ConfigPositions == { 0, One, Lit(3, 1) }
ConfigMaxTimes == { 0, Lit(5, 10), One }

\* Nothing is constructed yet.
ConfigInit ==
    /\ riders = <<>>
    /\ route = Route(<<>>)
    /\ dt = DefaultDt
    /\ time = 0
    /\ pc = "new"
    /\ max_time = 0
    /\ max_steps = 0
    /\ iter = 0
    /\ result = None
    /\ hist = HistInit
    /\ phys = NoPhys
    /\ upd = NoUpdate
    /\ lookup = NoCall
    /\ chosen = NoChoice

\* Route(segments): Route.__init__ stores the segments and their sum.
NewRoute(segments) ==
    /\ pc = "new"
    /\ route' = Route(segments)
    /\ pc' = "route"
    /\ UNCHANGED <<riders, dt, time, max_time, max_steps, iter, result, hist,
                   phys, upd, lookup, chosen>>

\* Race([], route, dt): Race.__init__ stores its arguments, time = 0.0.
NewRace(dt_) ==
    /\ pc = "route"
    /\ dt' = dt_
    /\ time' = 0
    /\ pc' = "idle"
    /\ UNCHANGED <<riders, route, max_time, max_steps, iter, result, hist,
                   phys, upd, lookup, chosen>>

\* route.gradient_at(position) on the constructed route; on a route without
\* segments the final segments[-1] raises IndexError.
ConfigLookup(position) ==
    /\ pc \in {"route", "idle"}
    /\ lookup.n = 0
    /\ IF route.segments = <<>>
       THEN pc' = "IndexError" /\ UNCHANGED lookup
       ELSE /\ lookup' = [position |-> position,
                          gradient |-> gradient_at(route, position), n |-> 1]
            /\ UNCHANGED pc
    /\ UNCHANGED <<riders, route, dt, time, max_time, max_steps, iter, result,
                   hist, phys, upd, chosen>>

\* race.run(mt) on a race with dt = 0: max_time / self.dt raises
\* ZeroDivisionError.
RunCallZeroDt ==
    /\ pc = "idle"
    /\ dt = 0
    /\ pc' = "ZeroDivisionError"
    /\ UNCHANGED <<riders, route, dt, time, max_time, max_steps, iter, result,
                   hist, phys, upd, lookup, chosen>>

ConfigNext ==
    \/ \E segments \in ConfigRoutes : NewRoute(segments)
    \/ \E dt_ \in ConfigDts : NewRace(dt_)
    \/ \E position \in ConfigPositions : ConfigLookup(position)
    \/ RunCallZeroDt
    \/ \E mt \in ConfigMaxTimes : dt # 0 /\ RunCall(mt)
    \/ RunIter
    \/ RunReturn

SpecConfig == ConfigInit /\ [][ConfigNext]_vars

(***************************************************************************)
(* Properties                                                              *)
(***************************************************************************)

\* Gap behind the leader as the program computes it, for the rider at i >= 2.
GapBehind(i) == FSub(riders[i - 1].position, riders[i].position)

\* Rounding allowance of the overlap guard: one unit in the last place of the
\* larger of |leader position| and 0.3.
SpacingEps(leader_position) == Max(Ulp(leader_position), Ulp(MinSpacing))

\* C1 (as stated): after any step(), every rider with a leader in the order
\* that step used is at least 0.3 behind it: leader.position - rider.position
\* >= 0.3.
C1_MinGapExact ==
    hist.last = "step" =>
        \A i \in 2..Len(riders) : GapBehind(i) >= MinSpacing

\* C1 (amended): after any step(), every rider that step processed (it was not
\* already finished) and that has a leader satisfies leader.position -
\* rider.position >= 0.3 - eps, eps being the rounding of the subtraction
\* leader.position - 0.3 (one unit in the last place).
C1_MinGap ==
    hist.last = "step" =>
        \A i \in 2..Len(riders) :
            riders[i].name \in hist.moved =>
                GapBehind(i) >= MinSpacing - SpacingEps(riders[i - 1].position)

\* C1 witness: a step has clamped a rider onto leader.position - 0.3, and the
\* rounded result leaves it closer than 0.3.
C1_Witness ==
    /\ hist.last = "step"
    /\ \E i \in 2..Len(riders) :
          /\ riders[i].name \in hist.moved
          /\ riders[i].position = FSub(riders[i - 1].position, MinSpacing)
          /\ GapBehind(i) < MinSpacing

\* C2: every rider's position is >= 0 in every reachable state.
C2_PositionNonNegative ==
    \A i \in 1..Len(riders) : riders[i].position >= 0

\* C3: for a Physiology with w_prime >= 0, 0 <= w_balance <= w_prime initially
\* and after every update(power, dt) with dt >= 0 and any power.
C3_WBalanceInRange ==
    phys.w_prime >= 0 => (0 <= phys.w_balance /\ phys.w_balance <= phys.w_prime)

\* C3 witness: updates above CP have drained a positive w_prime to the clamp
\* at zero.
C3_Witness ==
    /\ upd.n >= 2
    /\ upd.power > fatigue_adjusted_cp(phys)
    /\ phys.w_prime > 0
    /\ phys.w_balance = 0

\* C4: when run() returns having found no rider finished after its loop, every
\* rider is finished with finish_time = max_time, every entry of finish_times
\* is max_time, and order lists the riders by final position, descending.
C4_TimeoutDNF ==
    (hist.last = "run_return" /\ hist.dnf) =>
        /\ \A i \in 1..Len(riders) :
              /\ riders[i].finished
              /\ riders[i].finish_time = Some(max_time)
              /\ result[1].finish_times[riders[i].name] = max_time
              /\ result[1].order[i] = riders[i].name
        /\ DOMAIN result[1].finish_times = NameSet(riders)
        /\ Len(result[1].order) = Len(riders)
        /\ \A i \in 2..Len(riders) : riders[i - 1].position >= riders[i].position

\* C4 witness: a run() of several riders timed out after at least two steps
\* with the riders at different positions.
C4_Witness ==
    /\ hist.last = "run_return"
    /\ hist.dnf
    /\ hist.run_steps >= 2
    /\ Len(riders) >= 2
    /\ riders[1].position > riders[2].position

\* The race time after k more step() calls.
RECURSIVE TimeAfter(_, _)
TimeAfter(t, k) == IF k = 0 THEN t ELSE TimeAfter(FAdd(t, dt), k - 1)

\* C5 (as stated, for run() called on a new race): run() calls step() at most
\* int(max_time/dt) times, so the race time when it returns is at most
\* max_time.
C5_TimeWithinMaxTime ==
    (hist.last = "run_return" /\ hist.run_t0 = 0) =>
        /\ hist.run_steps <= max_steps
        /\ time <= max_time

\* C5 (amended): run() terminates; it calls step() at most int(max_time/dt)
\* times and never once a rider is finished; the race time when it returns is
\* the time at the call advanced by one float addition of dt per step() call
\* (a sum that rounding can carry past max_time).
C5_RunTerminates ==
    /\ [](/\ hist.run_steps <= max_steps
          /\ hist.last = "run_return" => time = TimeAfter(hist.run_t0, hist.run_steps))
    /\ [][hist'.run_steps = hist.run_steps + 1 => ~AnyFinished(riders)]_vars
    /\ (pc = "running") ~> (pc = "returned")

\* C5 witness: a run() on a new race has used all its allowed steps and
\* returned with the race time past max_time.
C5_Witness ==
    /\ hist.last = "run_return"
    /\ hist.run_t0 = 0
    /\ max_steps > 0
    /\ hist.run_steps = max_steps
    /\ time > max_time

\* C6: in the RaceResult of run(), finish_times[name] is the finish_time
\* recorded on the rider when it crossed the line, for every rider that
\* crossed during the run, a crossing in the very first step (at time 0.0)
\* included.
C6_FinishTimesRecorded ==
    hist.last = "run_return" =>
        \A i \in 1..Len(riders) :
            riders[i].name \in hist.run_crossed =>
                result[1].finish_times[riders[i].name] = riders[i].finish_time[1]

\* C7: gradient_at(p) is the gradient of the first segment whose cumulative
\* end is >= p; the first segment's for p <= 0, the last segment's for
\* p >= total_length, and on an interior boundary that of the segment ending
\* there.
CumulativeEnd(i) == SumLengths(route.segments, i)
FirstReaching(p) ==
    LET n == Len(route.segments)
        S == { i \in 1..n : CumulativeEnd(i) >= p }
    IN  IF S = {} THEN n ELSE CHOOSE i \in S : \A j \in S : i <= j
C7_GradientAt ==
    lookup.n > 0 =>
        LET p == lookup.position
            n == Len(route.segments)
        IN  /\ lookup.gradient = route.segments[FirstReaching(p)].gradient
            /\ p <= 0 => lookup.gradient = route.segments[1].gradient
            /\ p >= route.total_length => lookup.gradient = route.segments[n].gradient
            /\ \A i \in 1..n :
                  p = CumulativeEnd(i) => lookup.gradient = route.segments[i].gradient

\* C7 witness: a lookup exactly on an interior segment boundary.
C7_Witness ==
    /\ lookup.n > 0
    /\ Len(route.segments) >= 3
    /\ lookup.position = CumulativeEnd(2)
    /\ lookup.gradient = route.segments[2].gradient

\* C8: an update(power, dt) with power >= 0 and dt >= 0 adds power*dt/1000 to
\* total_kj, which therefore never decreases.
C8_TotalKjMonotone ==
    [][(upd'.n = upd.n + 1 /\ upd'.power >= 0) =>
          /\ phys'.total_kj >= phys.total_kj
          /\ phys'.total_kj =
                FAdd(phys.total_kj, FDiv(FMul(upd'.power, upd'.dt), Thousand))]_vars

\* C8 witness: updates with positive power and dt have accumulated work.
C8_Witness ==
    /\ upd.n >= 2
    /\ upd.power > 0
    /\ upd.dt > 0
    /\ phys.total_kj > FDiv(FMul(upd.power, upd.dt), Thousand)

\* C10: a finished rider is read-only: no step() and no run() changes any
\* field of a rider whose finished flag is set (it may move in the list).
C10_FinishedReadOnly ==
    [][\A i \in 1..Len(riders) :
          riders[i].finished => \E j \in 1..Len(riders') : riders'[j] = riders[i]]_vars

\* C10 witness: a step() has skipped a finished rider while processing
\* another one.
C10_Witness ==
    /\ hist.last = "step"
    /\ hist.moved # {}
    /\ \E i \in 1..Len(riders) :
          /\ riders[i].finished
          /\ riders[i].name \notin hist.moved
          /\ riders[i].name \in hist.crossed

\* A route that satisfies the construction-time invariants, and a dt that does.
ValidRoute(r) ==
    /\ Len(r.segments) >= 1
    /\ \A i \in 1..Len(r.segments) : r.segments[i].length > 0
ValidDt(d) == d > 0

\* C11: building a Route with no segments or with a segment of length <= 0,
\* or a Race with dt <= 0, fails at construction: a Route that has been built
\* has segments, all of length > 0, a Race that has been built has dt > 0, and
\* no gradient lookup or run() is reached with anything else.
C11_ConstructionValidated ==
    /\ pc # "new" => ValidRoute(route)
    /\ pc \notin {"new", "route"} => ValidDt(dt)
    /\ pc \notin {"IndexError", "ZeroDivisionError"}

\* The last step() processed the rider at i of its order, with a leader ahead.
Followed(i) == i >= 2 /\ hist.seen[i].processed

\* C12 (as stated): within one step(), the gap a rider uses for its draft
\* factor and its power-selection context is measured against its leader's
\* pre-step position: gap = leader.position_at_start_of_step - rider.position.
C12_GapAgainstPreStepLeader ==
    hist.last = "step" =>
        \A i \in 1..Len(hist.seen) :
            Followed(i) =>
                LET gap == FSub(hist.seen[i - 1].before.position,
                                hist.seen[i].before.position)
                IN  /\ hist.seen[i].gap = gap
                    /\ hist.seen[i].ctx.gap = gap
                    /\ hist.seen[i].ctx.draft_factor = compute_draft_factor(gap)

\* C12 (amended): within one step(), the gap a rider uses for its draft factor
\* and its power-selection context is measured against its leader's position
\* as this same pass has already updated it (moved, clamped and finish-checked:
\* the position the leader has when the step ends), minus the rider's own
\* position before its move.
C12_GapAgainstUpdatedLeader ==
    hist.last = "step" =>
        \A i \in 1..Len(hist.seen) :
            Followed(i) =>
                LET gap == FSub(riders[i - 1].position, hist.seen[i].before.position)
                IN  /\ riders[i - 1].name = hist.seen[i - 1].name
                    /\ hist.seen[i].gap = gap
                    /\ hist.seen[i].ctx.gap = gap
                    /\ hist.seen[i].ctx.draft_factor = compute_draft_factor(gap)

\* C12 witness: a step() has moved a leader and then processed its follower,
\* whose draft factor differs from the one the pre-step gap would give.
C12_Witness ==
    /\ hist.last = "step"
    /\ \E i \in 2..Len(hist.seen) :
          /\ hist.seen[i].processed
          /\ hist.seen[i - 1].processed
          /\ riders[i - 1].position # hist.seen[i - 1].before.position
          /\ hist.seen[i].ctx.draft_factor #
                compute_draft_factor(FSub(hist.seen[i - 1].before.position,
                                          hist.seen[i].before.position))

\* The position the last step() gave the rider at i of its order after the
\* integration and the overlap guard, before the finish line check.
PositionBeforeFinishCheck(i) ==
    OverlapGuard(Pedal(hist.seen[i].before, hist.seen[i].ctx), riders, i).position

\* C13: a rider processed in a step whose position after integration and
\* overlap clamp is >= total_length is marked finished, with finish_time the
\* race time at the start of that step and position exactly total_length (any
\* other processed rider keeps that position and is not finished); so after
\* any step every unfinished rider is short of total_length and no rider is
\* beyond it.
C13_FinishDetection ==
    hist.last = "step" =>
        /\ \A i \in 1..Len(riders) :
              hist.seen[i].processed =>
                  IF PositionBeforeFinishCheck(i) >= route.total_length
                  THEN /\ riders[i].finished
                       /\ riders[i].finish_time = Some(hist.step_time)
                       /\ riders[i].position = route.total_length
                  ELSE /\ ~riders[i].finished
                       /\ riders[i].finish_time = None
                       /\ riders[i].position = PositionBeforeFinishCheck(i)
        /\ \A i \in 1..Len(riders) :
              /\ ~riders[i].finished => riders[i].position < route.total_length
              /\ riders[i].position <= route.total_length

\* C13 witness: a step() that started after time 0 has carried a rider past
\* the line and left it finished on the line, with another rider still racing.
C13_Witness ==
    /\ hist.last = "step"
    /\ hist.step_time > 0
    /\ \E i \in 1..Len(riders) :
          /\ hist.seen[i].processed
          /\ PositionBeforeFinishCheck(i) > route.total_length
          /\ riders[i].finished
    /\ \E i \in 1..Len(riders) : ~riders[i].finished

\* The quantities the rules of choose_power read, for the physiology asked.
NearDepleted == phys.w_balance < FMul(LowBalanceFraction, phys.w_prime)
AdjustedCp == fatigue_adjusted_cp(phys)
MaxPower == Min(available_power(phys), phys.sprint_power)

\* C14: choose_power applies its rules in order, first match wins: (1)
\* w_balance < 0.2*w_prime gives 0.95*adjusted_cp whatever gap and at_front;
\* else (2) gap > 5.0 and not at_front gives min(max_power, 1.3*adjusted_cp);
\* else (3) not at_front and gap < 2.0 gives 0.9*adjusted_cp; else (4)
\* at_front gives min(max_power, 1.1*adjusted_cp); else (5) adjusted_cp, which
\* is the case exactly when the rider is not near-depleted, not at front and
\* 2.0 <= gap <= 5.0.
C14_PowerRules ==
    chosen.n > 0 =>
        /\ NearDepleted => chosen.power = FMul(AdjustedCp, ConservativeFactor)
        /\ (~NearDepleted /\ ~chosen.at_front /\ chosen.gap > ChaseGap) =>
              chosen.power = Min(MaxPower, FMul(AdjustedCp, ChaseFactor))
        /\ (~NearDepleted /\ ~chosen.at_front /\ chosen.gap < DraftingGap) =>
              chosen.power = FMul(AdjustedCp, DraftingFactor)
        /\ (~NearDepleted /\ chosen.at_front) =>
              chosen.power = Min(MaxPower, FMul(AdjustedCp, FrontFactor))
        /\ (/\ ~NearDepleted
            /\ ~chosen.at_front
            /\ DraftingGap <= chosen.gap
            /\ chosen.gap <= ChaseGap) => chosen.power = AdjustedCp

\* C14 witness: a near-depleted rider off the back (gap > 5.0, not at front)
\* was asked, for whom rule (1) and rule (2) give different powers.
C14_Witness ==
    /\ chosen.n > 0
    /\ NearDepleted
    /\ ~chosen.at_front
    /\ chosen.gap > ChaseGap
    /\ chosen.power # Min(MaxPower, FMul(AdjustedCp, ChaseFactor))

\* C15: in a step, a rider with a leader gets draft_factor 0.7 when gap < 2.0,
\* 0.85 when 2.0 <= gap < 5.0 and 1.0 when gap >= 5.0, and is handed
\* at_front = FALSE and its gap; the front rider gets draft_factor 1.0 and is
\* handed at_front = TRUE and gap 0.
C15_DraftAndContext ==
    hist.last = "step" =>
        \A i \in 1..Len(hist.seen) :
            hist.seen[i].processed =>
                IF i = 1
                THEN /\ hist.seen[i].ctx.draft_factor = NoDraftFactor
                     /\ hist.seen[i].ctx.at_front
                     /\ hist.seen[i].ctx.gap = 0
                ELSE LET gap == FSub(riders[i - 1].position,
                                     hist.seen[i].before.position)
                     IN  /\ ~hist.seen[i].ctx.at_front
                         /\ hist.seen[i].ctx.gap = gap
                         /\ gap < CloseDraftGap =>
                                hist.seen[i].ctx.draft_factor = CloseDraftFactor
                         /\ (CloseDraftGap <= gap /\ gap < FarDraftGap) =>
                                hist.seen[i].ctx.draft_factor = FarDraftFactor
                         /\ gap >= FarDraftGap =>
                                hist.seen[i].ctx.draft_factor = NoDraftFactor

\* C15 witness: one step() has handed the three draft factors to three
\* followers, or to two followers after an earlier step left a close one.
C15_Witness ==
    /\ hist.last = "step"
    /\ hist.steps = MaxSteps
    /\ \E i, j \in 2..Len(hist.seen) :
          /\ hist.seen[i].processed
          /\ hist.seen[j].processed
          /\ hist.seen[i].ctx.draft_factor = FarDraftFactor
          /\ hist.seen[j].ctx.draft_factor = CloseDraftFactor
    /\ hist.seen[1].ctx.at_front

\* What update(power, dt_) makes of the physiology p when the threshold and
\* the size of the change come from the adjusted CP of p as it is before the
\* call.
BalanceFromPriorCp(p, power, dt_) ==
    IF power > fatigue_adjusted_cp(p)
    THEN Max(0, FSub(p.w_balance, FMul(FSub(power, fatigue_adjusted_cp(p)), dt_)))
    ELSE Min(p.w_prime,
             FAdd(p.w_balance,
                  FMul(FMul(FSub(fatigue_adjusted_cp(p), power), dt_), RecoveryFactor)))

\* C16: update(power, dt) decides depletion or recovery, and sizes the
\* w_balance change, with the adjusted CP computed from total_kj as it was
\* before the call, and adds power*dt/1000 to total_kj for later calls; in
\* step() the power is chosen from the physiology as it is before that step's
\* update(), and that power is the one update() is given.
C16_PriorCp ==
    /\ [][upd'.n = upd.n + 1 =>
            /\ phys'.w_balance = BalanceFromPriorCp(phys, upd'.power, upd'.dt)
            /\ phys'.total_kj =
                  FAdd(phys.total_kj, FDiv(FMul(upd'.power, upd'.dt), Thousand))]_vars
    /\ [](hist.last = "step" =>
            \A i \in 1..Len(hist.seen) :
                hist.seen[i].processed =>
                    /\ hist.seen[i].power =
                          choose_power(hist.seen[i].before, hist.seen[i].ctx)
                    /\ riders[i].physiology.w_balance =
                          BalanceFromPriorCp(hist.seen[i].before.physiology,
                                             hist.seen[i].power, dt)
                    /\ riders[i].physiology.total_kj =
                          FAdd(hist.seen[i].before.physiology.total_kj,
                               FDiv(FMul(hist.seen[i].power, dt), Thousand)))

\* C16 witness: a first update() at a power between the adjusted CP after the
\* call and the one before it has taken the recovery branch (w_balance still
\* w_prime), and a step() has processed a rider whose adjusted CP that step's
\* work has lowered.
C16_Witness ==
    /\ upd.n = 1
    /\ upd.power > fatigue_adjusted_cp(phys)
    /\ upd.power <= phys.critical_power
    /\ phys.w_prime > 0
    /\ phys.w_balance = phys.w_prime
    /\ hist.last = "step"
    /\ \E i \in 1..Len(hist.seen) :
          /\ hist.seen[i].processed
          /\ fatigue_adjusted_cp(riders[i].physiology) <
                fatigue_adjusted_cp(hist.seen[i].before.physiology)
          /\ hist.seen[i].power > fatigue_adjusted_cp(riders[i].physiology)
          /\ hist.seen[i].power <= fatigue_adjusted_cp(hist.seen[i].before.physiology)

\* The speed the last step() integrated for the rider at i of its order,
\* before the floor at zero: speed + acceleration * dt.
RawNextSpeed(i) ==
    FAdd(hist.seen[i].before.velocity,
         FMul(compute_next_speed(hist.seen[i].power,
                                 hist.seen[i].before.velocity,
                                 hist.seen[i].ctx.gradient,
                                 hist.seen[i].before.mass,
                                 hist.seen[i].before.cda,
                                 hist.seen[i].before.crr,
                                 hist.seen[i].ctx.draft_factor, dt)[1],
              dt))

\* C17: every rider's velocity is >= 0 in every reachable state (riders start
\* with velocity >= 0): neither the speed integration nor the overlap guard
\* makes it negative.
C17_VelocityNonNegative ==
    \A i \in 1..Len(riders) : riders[i].velocity >= 0

\* C17 witness: in one step() the integration of one rider went below zero
\* and was floored, and the overlap guard cut a follower's velocity down to
\* its leader's.
C17_Witness ==
    /\ hist.last = "step"
    /\ \E i \in 1..Len(riders) :
          /\ hist.seen[i].processed
          /\ RawNextSpeed(i) < 0
          /\ riders[i].velocity = 0
    /\ \E i \in 2..Len(riders) :
          /\ hist.seen[i].processed
          /\ RawNextSpeed(i) > riders[i - 1].velocity
          /\ riders[i].velocity = riders[i - 1].velocity

\* The names of the riders in the order the last step() of history h used.
SeenOrder(h) == [i \in 1..Len(h.seen) |-> h.seen[i].name]

\* The rider at i of the last step()'s order had integrated its way past the
\* leader ahead of it before the overlap guard acted.
WouldPass(i) ==
    /\ Followed(i)
    /\ Pedal(hist.seen[i].before, hist.seen[i].ctx).position > riders[i - 1].position

\* C18: the order in which the first step() processes the riders is the order
\* of every later step() and of the ranking run() returns: a rider ahead of
\* another in one step is ahead of it in every later step.
C18_NoOvertaking ==
    /\ [][(hist'.last = "step" /\ hist.seen # <<>>) =>
              SeenOrder(hist') = SeenOrder(hist)]_vars
    /\ []((hist.last = "run_return" /\ hist.seen # <<>>) =>
              result[1].order = SeenOrder(hist))

\* C18 witness: run() has returned after two or more steps, in the last of
\* which a rider had ridden past its leader before the guard set it back, and
\* the ranking is the order of that step.
C18_Witness ==
    /\ hist.last = "run_return"
    /\ hist.run_steps >= 2
    /\ \E i \in 1..Len(hist.seen) : WouldPass(i)
    /\ result[1].order = SeenOrder(hist)

\* The name of the rider the Simulator puts first in the riders list.
FirstListed == MakeRider(0, StrongTraits, 0).name

\* C19: when all riders start at the same position, the rider that is first
\* in the riders list is order[0] of the RaceResult, when a rider finishes and
\* on timeout, whatever the riders' traits.
C19_FirstListedWins ==
    hist.last = "run_return" => result[1].order[1] = FirstListed

\* C19 witness: a run() that ended because a rider finished, in a race whose
\* first listed rider has the lower critical power and a higher mass than the
\* rider listed second, which in the last step had ridden past its leader
\* before the guard set it back; the first listed rider is order[0].
C19_Witness ==
    /\ hist.last = "run_return"
    /\ ~hist.dnf
    /\ Len(riders) >= 2
    /\ riders[1].name = FirstListed
    /\ riders[1].physiology.critical_power < riders[2].physiology.critical_power
    /\ riders[1].mass > riders[2].mass
    /\ WouldPass(2)
    /\ result[1].order[1] = FirstListed

\* The last step() left the rider at i of its order, which has a leader, at
\* or below leader.position - 0.3, short of the line and not finished.
HeldBehind(i) ==
    /\ riders[i].position <= FSub(riders[i - 1].position, MinSpacing)
    /\ FSub(riders[i - 1].position, MinSpacing) < route.total_length
    /\ ~riders[i].finished

\* C20: step() marks only the rider at the front of its order finished: a
\* rider with a leader is held at or below leader.position - 0.3, which is
\* short of total_length; so over all step() calls at most one rider crosses
\* the line, and when run() returns because a rider finished, exactly one
\* rider has crossed and it is order[0].
C20_SingleFinisher ==
    /\ Cardinality(hist.crossed) <= 1
    /\ hist.last = "step" =>
           \A i \in 1..Len(hist.seen) : Followed(i) => HeldBehind(i)
    /\ (hist.last = "run_return" /\ ~hist.dnf) =>
           hist.crossed = {result[1].order[1]}

\* C20 witness: run() has returned because the front rider finished in a step
\* in which the rider behind it had integrated its way over the line too,
\* and was set back to 0.3 m short of it.
C20_Witness ==
    /\ hist.last = "run_return"
    /\ ~hist.dnf
    /\ Len(riders) >= 2
    /\ hist.seen[1].processed
    /\ Followed(2)
    /\ Pedal(hist.seen[2].before, hist.seen[2].ctx).position >= route.total_length
    /\ riders[2].position = FSub(route.total_length, MinSpacing)
    /\ hist.crossed = {result[1].order[1]}

\* C21: for a Physiology with fatigue_penalty <= 0.2 and critical_power > 0,
\* in every state reached by update() calls with power >= 0 and dt >= 0 the
\* fatigue-adjusted CP is >= 0.8 * critical_power, so is_cooked() is False,
\* even when w_balance is 0.
C21_NeverCooked ==
    /\ fatigue_adjusted_cp(phys) >= FMul(CookedFraction, phys.critical_power)
    /\ ~is_cooked(phys)

\* C21 witness: after an update() the total work has passed fatigue_kj, the
\* penalty is 0.2, so the adjusted CP is down to 0.8 * critical_power, and
\* w_balance is 0: is_cooked() is still False.
C21_Witness ==
    /\ upd.n >= 1
    /\ phys.fatigue_penalty = Lit(2, 10)
    /\ phys.total_kj >= phys.fatigue_kj
    /\ phys.w_prime > 0
    /\ phys.w_balance = 0
    /\ fatigue_adjusted_cp(phys) = FMul(CookedFraction, phys.critical_power)
    /\ ~is_cooked(phys)

====
